---- MODULE Spec2Model ----
(***************************************************************************)
(* Model of sentry_telegram_plus/plugin.py (TelegramNotificationsPlugin):  *)
(* channel resolution, message rendering and per-receiver dispatch of      *)
(* notify_users, and the pure helpers they call.                           *)
(*                                                                         *)
(* Strings are sequences of one-character strings.  A template is a        *)
(* sequence of segments (fixed text, {name}, {tag[name]}); a rendered text *)
(* is a sequence of pieces whose lengths add up to len(text).              *)
(***************************************************************************)
EXTENDS Integers, Sequences, FiniteSets, TLC

VARIABLES
    options,            \* the project's stored options (get_option)
    event,              \* the event handed to notify_users
    pc,                 \* position of the notify_users call
    channels_config,    \* notify_users: channels_config
    global_api_origin,  \* notify_users: global_api_origin
    matching_channels,  \* notify_users: matching_channels
    ci,                 \* index of channel_to_send in matching_channels
    receivers,          \* notify_users: receivers of channel_to_send
    ri,                 \* index of receiver in receivers
    payload,            \* notify_users: payload of channel_to_send
    url,                \* notify_users: url of channel_to_send
    calls,              \* send_message invocations so far
    posts,              \* safe_urlopen POSTs so far, with their outcome
    log,                \* log records written so far
    rin,                \* a helper called on its own: the call's arguments
    rout                \* a helper called on its own: the call's outcome

vars == <<options, event, pc, channels_config, global_api_origin,
          matching_channels, ci, receivers, ri, payload, url, calls, posts,
          log, rin, rout>>

notifyVars == <<options, event, pc, channels_config, global_api_origin,
                matching_channels, ci, receivers, ri, payload, url, calls,
                posts, log>>

renderVars == <<rin, rout>>

----------------------------------------------------------------------------
(* Program constants *)

TELEGRAM_MAX_MESSAGE_LENGTH == 4096

EVENT_TITLE_MAX_LENGTH == 500

(* Bounds of the model *)

\* longest channel list of a configuration
MaxChannels == 2

\* how far past TELEGRAM_MAX_MESSAGE_LENGTH the rendered inputs reach
MaxOver == 2

\* longest filter list of a channel resolved on its own
MaxFilters == 2

\* longest receivers string parsed on its own
MaxReceiversLen == 5

\* longest stored option value is_configured is called on
MaxOptionLen == 2

----------------------------------------------------------------------------
(* Strings *)

\* str.lower / re.IGNORECASE on the letters the model uses
Lower(c) ==
    CASE c = "A" -> "a"
      [] c = "B" -> "b"
      [] c = "C" -> "c"
      [] OTHER -> c

Max(a, b) == IF a > b THEN a ELSE b

\* Optional value: <<>> is None / absent, <<v>> is v
None == <<>>

Some(v) == <<v>>

----------------------------------------------------------------------------
(* re.search(pattern, text, re.IGNORECASE), for the patterns of the model: *)
(* literal characters, '.', a postfix '*', and '(' which is never closed   *)

\* re.error: an unterminated group, or a '*' with nothing to repeat
ReError(p) ==
    \/ \E i \in 1..Len(p) : p[i] = "("
    \/ Len(p) > 0 /\ p[1] = "*"
    \/ \E i \in 1..(Len(p) - 1) : p[i] = "*" /\ p[i + 1] = "*"

RECURSIVE ReMatchHere(_, _)
\* does pattern p match a prefix of text t
ReMatchHere(p, t) ==
    IF p = <<>> THEN TRUE
    ELSE IF Len(p) >= 2 /\ p[2] = "*"
    THEN \E k \in 0..Len(t) :
            /\ \A j \in 1..k : p[1] = "." \/ Lower(p[1]) = Lower(t[j])
            /\ ReMatchHere(SubSeq(p, 3, Len(p)), SubSeq(t, k + 1, Len(t)))
    ELSE /\ t # <<>>
         /\ p[1] = "." \/ Lower(p[1]) = Lower(t[1])
         /\ ReMatchHere(Tail(p), Tail(t))

\* "E" when re.search raises, else "T" / "F" for bool(re.search(...))
ReSearch(p, t) ==
    IF ReError(p) THEN "E"
    ELSE IF \E i \in 1..(Len(t) + 1) : ReMatchHere(p, SubSeq(t, i, Len(t)))
    THEN "T" ELSE "F"

----------------------------------------------------------------------------
(* Events *)

\* dict(event.tags).get(name): the last pair with that key wins
DictGet(tags, name) ==
    LET hits == {i \in 1..Len(tags) : tags[i][1] = name}
    IN  IF hits = {} THEN None
        ELSE Some(tags[CHOOSE i \in hits : \A j \in hits : j <= i][2])

\* dict(event.tags).values()
DictValues(tags) ==
    {tags[i][2] : i \in {i \in 1..Len(tags) :
                            \A j \in (i + 1)..Len(tags) : tags[j][1] # tags[i][1]}}

----------------------------------------------------------------------------
(* _match_filter.  A filter type is held split on its first "__":          *)
(* "regex__message" is <<"regex", "message">>, "tag__env" is               *)
(* <<"tag", "env">>, "level" is <<"level">>; <<>> is a missing or empty    *)
(* type.  The result is "T" (truthy), "F" (falsy) or "E" (raises).         *)

_match_filter(ev, filter_type, filter_value) ==
    IF filter_type = <<"regex", "message">>
    THEN ReSearch(filter_value, ev.message)
    ELSE IF filter_type = <<"regex", "title">>
    THEN ReSearch(filter_value, ev.title)
    ELSE IF Len(filter_type) >= 2 /\ filter_type[1] = "tag"
    THEN LET tag_value == DictGet(ev.tags, filter_type[2])
         IN  IF tag_value = None \/ tag_value[1] = <<>> THEN "F"
             ELSE ReSearch(filter_value, tag_value[1])
    ELSE IF filter_type = <<"level">>
    THEN IF ev.level = filter_value THEN "T" ELSE "F"
    ELSE IF filter_type = <<"project_slug">>
    THEN IF ev.project # None /\ ev.project[1] = filter_value THEN "T" ELSE "F"
    ELSE IF filter_type = <<"value", "tag">>
    THEN IF filter_value \in DictValues(ev.tags) THEN "T" ELSE "F"
    ELSE "F"

----------------------------------------------------------------------------
(* get_receivers_list *)

RECURSIVE Split(_, _)
\* s.split(sep): the segments between the separators
Split(s, sep) ==
    LET at == {i \in 1..Len(s) : s[i] = sep}
    IN  IF at = {} THEN <<s>>
        ELSE LET i == CHOOSE i \in at : \A j \in at : i <= j
             IN  <<SubSeq(s, 1, i - 1)>> \o Split(SubSeq(s, i + 1, Len(s)), sep)

\* the split without its maxsplit: a cut at every separator
Split1_every(s, sep) == Split(s, sep)

\* s.split(sep, maxsplit=1)
Split1(s, sep) ==
    LET at == {i \in 1..Len(s) : s[i] = sep}
    IN  IF at = {} THEN <<s>>
        ELSE LET i == CHOOSE i \in at : \A j \in at : i <= j
             IN  <<SubSeq(s, 1, i - 1), SubSeq(s, i + 1, Len(s))>>

\* s.strip(), the whitespace of the model being " "
Strip(s) ==
    LET keep == {i \in 1..Len(s) : s[i] # " "}
    IN  IF keep = {} THEN <<>>
        ELSE SubSeq(s, CHOOSE i \in keep : \A j \in keep : i <= j,
                       CHOOSE i \in keep : \A j \in keep : j <= i)

RECURSIVE ParseParts(_)
\* the loop of get_receivers_list over receivers_str.split(";")
ParseParts(parts) ==
    IF parts = <<>> THEN <<>>
    ELSE LET stripped_part == Strip(Head(parts))
         IN  (IF stripped_part # <<>> THEN <<Split1(stripped_part, "/")>> ELSE <<>>)
             \o ParseParts(Tail(parts))

get_receivers_list(receivers_str) ==
    IF receivers_str = <<>> THEN <<>>
    ELSE ParseParts(Split(receivers_str, ";"))

----------------------------------------------------------------------------
(* Templates and rendered text.                                            *)
(* A template segment is fixed text (k = "lit": n characters, named id),   *)
(* a replacement field {name} (k = "field") or {tag[name]} (k = "tag").    *)
(* A piece of rendered text is fixed text (its id and length n) or a       *)
(* substituted string s (id = "", n = Len(s)).                             *)

Lit(id, n) == [k |-> "lit", name |-> id, n |-> n]

Field(name) == [k |-> "field", name |-> name, n |-> 0]

Tag(name) == [k |-> "tag", name |-> name, n |-> 0]

LitPiece(id, n) == [id |-> id, n |-> n, s |-> <<>>]

StrPiece(s) == [id |-> "", n |-> Len(s), s |-> s]

RECURSIVE TextLen(_)
\* len(text)
TextLen(text) == IF text = <<>> THEN 0 ELSE Head(text).n + TextLen(Tail(text))

NA == <<"[", "N", "A", "]">>

\* event_tags = defaultdict(lambda: "[NA]"); event_tags[name]
TagOrNA(tags, name) ==
    LET v == DictGet(tags, name) IN IF v = None THEN NA ELSE v[1]

\* the index strings str.format turns into an int before the lookup: those
\* made of digits only (in the model they are one digit long)
DigitIndexes == {"0", "1", "2", "3", "4", "5", "6", "7", "8", "9"}

\* the replacement field {tag[name]}: tag.__getitem__ with the key str.format
\* makes of name.  The keys of event_tags are the tag names, all strings,
\* so an int key is never among them and the defaultdict gives "[NA]".
TagIndex(tags, name) ==
    IF name \in DigitIndexes THEN NA ELSE TagOrNA(tags, name)

\* message_template.format(**fields): key is the name str.format raises
\* KeyError for (the first replacement field, left to right, that fields
\* lacks), "" when it returns text.  tags is fields["tag"].
Format(message_template, fields, tags) ==
    LET missing == {i \in 1..Len(message_template) :
                        /\ message_template[i].k = "field"
                        /\ message_template[i].name \notin DOMAIN fields}
    IN  IF missing # {}
        THEN [key |-> message_template[CHOOSE i \in missing :
                                         \A j \in missing : i <= j].name,
              text |-> <<>>]
        ELSE [key |-> "",
              text |-> [i \in 1..Len(message_template) |->
                 LET seg == message_template[i]
                 IN  CASE seg.k = "lit" -> LitPiece(seg.name, seg.n)
                       [] seg.k = "field" -> StrPiece(fields[seg.name])
                       [] OTHER -> StrPiece(TagIndex(tags, seg.name))]]

\* the try / except KeyError around one message_template.format call:
\* one missing key is given the value "-" and the call is made again
FormatRetry(message_template, fields, tags) ==
    LET first == Format(message_template, fields, tags)
    IN  IF first.key = "" THEN first
        ELSE Format(message_template, (first.key :> <<"-">>) @@ fields, tags)

truncate_warning_text ==
    <<".", ".", ".", " ", "(", "t", "r", "u", "n", "c", "a", "t", "e", "d", ")">>

\* compile_message_text: raised is TRUE when a KeyError leaves the call
compile_message_text(message_template, fields, tags, event_message) ==
    LET probe == FormatRetry(message_template,
                             ("message" :> truncate_warning_text) @@ fields, tags)
        max_message_body_len ==
            Max(0, TELEGRAM_MAX_MESSAGE_LENGTH - TextLen(probe.text))
        message ==
            IF Len(event_message) > max_message_body_len
            THEN SubSeq(event_message, 1, max_message_body_len)
                    \o truncate_warning_text
            ELSE event_message
        final == FormatRetry(message_template, ("message" :> message) @@ fields, tags)
    IN  IF probe.key # "" \/ final.key # ""
        THEN [raised |-> TRUE, text |-> <<>>]
        ELSE [raised |-> FALSE, text |-> final.text]

----------------------------------------------------------------------------
(* build_message, build_url *)

\* the grave accent character (U+0060), one element of a string like any other
Grave == "grave"

RECURSIVE _escape_markdown_v1(_)
\* a backslash before each character of special_chars (the join over the
\* characters of text, taken half by half)
_escape_markdown_v1(text) ==
    IF text = <<>> THEN <<>>
    ELSE IF Len(text) = 1
    THEN (IF text[1] \in {"_", "*", Grave, "["}
          THEN <<"\\", text[1]>> ELSE text)
    ELSE _escape_markdown_v1(SubSeq(text, 1, Len(text) \div 2))
         \o _escape_markdown_v1(SubSeq(text, Len(text) \div 2 + 1, Len(text)))

\* sentry.utils.strings.truncatechars(value, arg)
truncatechars(value, arg) ==
    IF Len(value) > arg
    THEN SubSeq(value, 1, arg - 3) \o <<".", ".", ".">>
    ELSE value

\* the text build_message puts in place of an empty event.message
\* (19 characters, none of them escaped)
EmptyMessageText ==
    <<"p", "u", "s", "t", "o", "e", " ", "s", "o", "o", "b", "s", "e", "n",
      "i", "e", " ", ":", "(">>

\* what build_message reads from group: project.name, get_absolute_url(),
\* short_id, times_seen
Group ==
    [project_name |-> <<"P">>, url |-> <<"u">>, short_id |-> <<"P", "-", "1">>,
     times_seen |-> <<"1">>]

\* message_params of build_message, less "tag"
message_params(ev) ==
    [title |-> _escape_markdown_v1(truncatechars(ev.title, EVENT_TITLE_MAX_LENGTH)),
     project_name |-> Group.project_name,
     url |-> Group.url,
     short_id |-> Group.short_id,
     times_seen |-> Group.times_seen,
     platform |-> IF ev.platform = <<>> THEN NA ELSE ev.platform,
     event_datetime |-> IF ev.datetime = <<>> THEN NA ELSE ev.datetime,
     event_level |-> TagOrNA(ev.tags, "level")]

\* build_message: the payload, or raised when compile_message_text raises
build_message(ev, message_template) ==
    LET escaped_event_message ==
            _escape_markdown_v1(IF ev.message = <<>> THEN EmptyMessageText
                                ELSE ev.message)
        compiled == compile_message_text(message_template, message_params(ev),
                                         ev.tags, escaped_event_message)
    IN  [raised |-> compiled.raised,
         payload |-> [text |-> compiled.text, parse_mode |-> "Markdown"]]

\* f"{api_origin}/bot{api_token}/sendMessage"
build_url(api_origin, api_token) ==
    api_origin \o <<"/", "b", "o", "t">> \o api_token
        \o <<"/", "s", "e", "n", "d", "M", "e", "s", "s", "a", "g", "e">>

\* urllib.parse.urlparse(url), for the URLs build_url makes (no '?', '#' or
\* ';' in them): with "://" the scheme is what stands before it, the netloc
\* runs to the next "/" and the path is the rest; without it the scheme and
\* the netloc are empty and the path is the whole string
urlparse(u) ==
    LET at == {i \in 1..(Len(u) - 2) :
                  u[i] = ":" /\ u[i + 1] = "/" /\ u[i + 2] = "/"}
    IN  IF at = {} THEN [scheme |-> <<>>, netloc |-> <<>>, path |-> u]
        ELSE LET i == CHOOSE i \in at : \A j \in at : i <= j
                 rest == SubSeq(u, i + 3, Len(u))
                 slash == {j \in 1..Len(rest) : rest[j] = "/"}
                 cut == IF slash = {} THEN Len(rest) + 1
                        ELSE CHOOSE j \in slash : \A k \in slash : j <= k
             IN  [scheme |-> SubSeq(u, 1, i - 1),
                  netloc |-> SubSeq(rest, 1, cut - 1),
                  path |-> SubSeq(rest, cut, Len(rest))]

RECURSIVE Join(_, _)
\* sep.join(parts)
Join(parts, sep) ==
    IF parts = <<>> THEN <<>>
    ELSE IF Len(parts) = 1 THEN parts[1]
    ELSE parts[1] \o <<sep>> \o Join(Tail(parts), sep)

\* _mask_url_token: the path element after an element equal to 'bot' is
\* replaced by '...'
_mask_url_token(u) ==
    LET parsed_url == urlparse(u)
        path_parts == Split(parsed_url.path, "/")
        masked_parts ==
            IF Len(path_parts) > 2 /\ path_parts[2] = <<"b", "o", "t">>
            THEN [path_parts EXCEPT ![3] = <<".", ".", ".">>]
            ELSE path_parts
    IN  parsed_url.scheme \o <<":", "/", "/">> \o parsed_url.netloc
            \o Join(masked_parts, "/")

----------------------------------------------------------------------------
(* _get_matching_channels *)

RECURSIVE FiltersMatch_skip_malformed(_, _)
\* the loop over one channel's filters passing over a filter that lacks a
\* type or a value instead of failing on it
FiltersMatch_skip_malformed(ev, filters) ==
    IF filters = <<>> THEN "T"
    ELSE LET f == Head(filters)
         IN  IF f.type = <<>> \/ f.value = <<>>
             THEN FiltersMatch_skip_malformed(ev, Tail(filters))
             ELSE LET m == _match_filter(ev, f.type, f.value)
                  IN  IF m = "T" THEN FiltersMatch_skip_malformed(ev, Tail(filters))
                      ELSE m

RECURSIVE FiltersMatch_no_short_circuit(_, _)
\* the loop over one channel's filters without its break: every filter is
\* evaluated, whatever the filters before it gave
FiltersMatch_no_short_circuit(ev, filters) ==
    IF filters = <<>> THEN "T"
    ELSE LET f == Head(filters)
             m == IF f.type = <<>> \/ f.value = <<>> THEN "F"
                  ELSE _match_filter(ev, f.type, f.value)
             rest == FiltersMatch_no_short_circuit(ev, Tail(filters))
         IN  IF m = "E" \/ rest = "E" THEN "E"
             ELSE IF m = "T" THEN rest ELSE "F"

RECURSIVE FiltersMatch(_, _)
\* the loop over one channel's filters: "T" when the loop ends with
\* all_filters_match, "F" when it breaks, "E" when _match_filter raises
FiltersMatch(ev, filters) ==
    IF filters = <<>> THEN "T"
    ELSE LET f == Head(filters)
         IN  IF f.type = <<>> \/ f.value = <<>> THEN "F"
             ELSE LET m == _match_filter(ev, f.type, f.value)
                  IN  IF m = "T" THEN FiltersMatch(ev, Tail(filters)) ELSE m

\* Appended with the effect of a failed filter lost: a channel is left out
\* only when it has no filters to fail
Appended_AnyFiltered(ev, channel_config) ==
    \/ channel_config.filters = <<>>
    \/ FiltersMatch(ev, channel_config.filters) # "E"

\* is channels[i] appended to matching_channels
Appended(ev, channel_config) ==
    \/ channel_config.filters = <<>>
    \/ /\ FiltersMatch(ev, channel_config.filters) = "T"
       /\ channel_config.filters # <<>>

\* _get_matching_channels as a single-default resolver: of the filterless
\* channels only the first is returned
_get_matching_channels_first_default(ev, channels) ==
    [raised |-> \E i \in 1..Len(channels) :
                    FiltersMatch(ev, channels[i].filters) = "E",
     matching |-> SelectSeq([i \in 1..Len(channels) |-> i],
                    LAMBDA i :
                        /\ Appended(ev, channels[i])
                        /\ channels[i].filters = <<>> =>
                              \A j \in 1..(i - 1) : channels[j].filters # <<>>)]

\* _get_matching_channels with a channel without filters appended at both
\* of its append sites
_get_matching_channels_default_twice(ev, channels) ==
    [raised |-> \E i \in 1..Len(channels) :
                    FiltersMatch(ev, channels[i].filters) = "E",
     matching |->
        LET sites == [p \in 1..(2 * Len(channels)) |-> <<(p + 1) \div 2, p % 2>>]
            taken == SelectSeq(sites, LAMBDA e :
                        \/ e[2] = 1 /\ channels[e[1]].filters = <<>>
                        \/ e[2] = 0 /\ FiltersMatch(ev, channels[e[1]].filters) = "T")
        IN  [k \in 1..Len(taken) |-> taken[k][1]]]

\* _get_matching_channels: the positions in channels of the channels it
\* returns, in order (the returned list holds those same objects);
\* default_channel stays None, so nothing else is added
_get_matching_channels(ev, channels) ==
    [raised |-> \E i \in 1..Len(channels) :
                    FiltersMatch(ev, channels[i].filters) = "E",
     matching |-> SelectSeq([i \in 1..Len(channels) |-> i],
                            LAMBDA i : Appended(ev, channels[i]))]

----------------------------------------------------------------------------
(* integration.py: TelegramRoutingIntegration.should_notify.  Results are  *)
(* "T" (True), "F" (False) or "E" (an exception leaves the call).  The     *)
(* event's tags are read as a mapping (event.tags.get).                    *)

RECURSIVE _channel_matches_filters(_, _)
\* the loop over one channel's filters: a filter without type or value is
\* passed over, a filter of a type with no branch decides nothing
_channel_matches_filters(ev, filters) ==
    IF filters = <<>> THEN "T"
    ELSE LET f == Head(filters)
             rest == _channel_matches_filters(ev, Tail(filters))
             found ==
                IF f.type = <<"regex", "message">>
                THEN ReSearch(f.value, ev.message)
                ELSE IF f.type = <<"regex", "title">>
                THEN ReSearch(f.value, ev.title)
                ELSE IF Len(f.type) >= 2 /\ f.type[1] = "tag"
                THEN LET tag_value == DictGet(ev.tags, f.type[2])
                     IN  IF tag_value = None THEN "F"
                         ELSE ReSearch(f.value, tag_value[1])
                ELSE IF f.type = <<"level">>
                THEN IF ev.level # f.value THEN "F" ELSE "T"
                ELSE IF f.type = <<"project_slug">>
                THEN IF ev.project # None /\ ev.project[1] # f.value
                     THEN "F" ELSE "T"
                ELSE "T"
         IN  IF f.type = <<>> \/ f.value = <<>> THEN rest
             ELSE IF found = "T" THEN rest ELSE found

RECURSIVE should_notify(_, _)
\* the loop over channels_config["channels"]: True at the first channel
\* that has no filters or whose filters pass, False when there is none
should_notify(ev, channels) ==
    IF channels = <<>> THEN "F"
    ELSE LET channel_filters == Head(channels).filters
             passes == _channel_matches_filters(ev, channel_filters)
         IN  IF channel_filters = <<>> THEN "T"
             ELSE IF passes = "F" THEN should_notify(ev, Tail(channels))
             ELSE passes

----------------------------------------------------------------------------
(* _get_channels_config_data.  The stored channels_config_json is held as  *)
(* what json.loads makes of it: kind "unset" (empty or None), "invalid"    *)
(* (JSONDecodeError), "notdict", "nochannels" (no 'channels' list),        *)
(* "badorigin" ('api_origin' is not a string) or "ok", with the parsed     *)
(* 'api_origin' (None when the key is absent) and 'channels'.              *)

\* _get_channels_config_data logging nothing when it rejects the stored value
_get_channels_config_data_silent(opts) ==
    LET config == opts.channels_config_json
    IN  [channels |-> IF config.kind = "ok" THEN config.channels ELSE <<>>,
         api_origin |-> IF config.kind = "ok" /\ config.api_origin # None
                        THEN config.api_origin ELSE opts.api_origin,
         log |-> [level |-> "none", msg |-> ""]]

_get_channels_config_data(opts) ==
    LET config == opts.channels_config_json
    IN  IF config.kind = "unset"
        THEN [channels |-> <<>>, api_origin |-> opts.api_origin,
              log |-> [level |-> "info", msg |-> "channels_config_json is empty"]]
        ELSE IF config.kind = "ok"
        THEN [channels |-> config.channels,
              api_origin |-> IF config.api_origin # None THEN config.api_origin
                             ELSE opts.api_origin,
              log |-> [level |-> "none", msg |-> ""]]
        ELSE [channels |-> <<>>, api_origin |-> opts.api_origin,
              log |-> [level |-> "error", msg |-> config.kind]]

\* str(api_origin) inside the f-string of build_url
OriginText(api_origin) ==
    IF api_origin = None THEN <<"N", "o", "n", "e">> ELSE api_origin[1]

----------------------------------------------------------------------------
(* send_message *)

\* raise_for_status taking every status from 300 up as an error
raise_for_status_300(status_code) == status_code >= 300 /\ status_code < 600

\* requests.Response.raise_for_status raises for 4xx and 5xx
raise_for_status(status_code) == status_code >= 400 /\ status_code < 600

\* payload_copy of send_message: a copy of the payload dict with "chat_id"
\* set, and "message_thread_id" set when the receiver has a second element;
\* every other key is as the payload has it
payload_copy(pl, receiver) ==
    LET with_chat_id == ("chat_id" :> receiver[1]) @@ pl
    IN  IF Len(receiver) > 1
        THEN ("message_thread_id" :> receiver[2]) @@ with_chat_id
        ELSE with_chat_id

\* send_message writing the receiver's keys into the caller's dict
payload_after_send_message_shared(pl, receiver) == payload_copy(pl, receiver)

\* the caller's payload dict once send_message is over: the keys were set
\* on payload.copy(), so it is as it was
payload_after_send_message(pl, receiver) == pl

\* does an exception leave send_message: its try / except Exception spans
\* the POST and raise_for_status, so whatever the outcome none does
send_message_raises(outcome) == FALSE

\* what send_message logs after the POST: outcome 0 is safe_urlopen raising,
\* any other outcome is the response's status code
send_log(outcome) ==
    IF outcome = 0 \/ raise_for_status(outcome)
    THEN [level |-> "error", msg |-> "Failed to send message"]
    ELSE [level |-> "debug", msg |-> "Response code"]

----------------------------------------------------------------------------
(* The configurations, events and transport outcomes the model draws from *)

Origin1 == <<"h", ":", "/", "/", "o">>

Origin2 == <<"h", ":", "/", "/", "p">>

\* the form's initial template: fixed text, {project_name}, {tag[level]},
\* {title}, {message}, {url}
TemplateDefault ==
    <<Lit("sentry", 10), Field("project_name"), Tag("level"), Field("title"),
      Field("message"), Field("url")>>

TemplateOwn == <<Lit("filtered", 10), Field("message")>>

TemplateOwn2 == <<Lit("default", 9), Field("message")>>

\* a template that names two fields message_params does not have
TemplateTwoMissing == <<Field("foo"), Field("bar"), Field("message")>>

Filter(type, value) == [type |-> type, value |-> value]

Channel(token, recv, template, origin, filters) ==
    [api_token |-> token, receivers |-> recv, template |-> template,
     api_origin |-> origin, filters |-> filters]

ChCrit ==
    Channel(<<"1">>, <<"x", "/", "9", ";", "y">>, TemplateOwn, None,
            <<Filter(<<"regex", "message">>, <<"A", ".", "*", "_">>)>>)

ChLevel ==
    Channel(<<"2">>, <<"z">>, <<>>, None,
            <<Filter(<<"level">>, <<"e">>),
              Filter(<<"tag", "env">>, <<"p">>)>>)

ChBadRe ==
    Channel(<<"3">>, <<"r">>, <<>>, None,
            <<Filter(<<"regex", "title">>, <<"(">>)>>)

ChDef1 == Channel(<<"4">>, <<"d">>, TemplateOwn2, Some(Origin2), <<>>)

ChDef2 ==
    Channel(<<"5">>, <<" ", "e", "/", "7", " ", ";", " ">>, <<>>, None, <<>>)

ChBadTpl == Channel(<<"6">>, <<"g">>, TemplateTwoMissing, None, <<>>)

ChNoTok == Channel(<<>>, <<"h">>, <<>>, None, <<>>)

ChNoRecv == Channel(<<"7">>, <<>>, <<>>, None, <<>>)

ChannelPool ==
    {ChCrit, ChLevel, ChBadRe, ChDef1, ChDef2, ChBadTpl, ChNoTok, ChNoRecv}

ChannelLists == UNION {[1..n -> ChannelPool] : n \in 1..MaxChannels}

Events ==
    {[message |-> <<"a", "B", "_">>, title |-> <<"t", "[">>, level |-> <<"e">>,
      tags |-> <<<<"level", <<"e">>>>, <<"env", <<"p">>>>>>,
      project |-> Some(<<"s">>), platform |-> <<"p", "y">>, datetime |-> <<"d">>],
     [message |-> <<"c">>, title |-> <<"t">>, level |-> <<"w">>,
      tags |-> <<>>,
      project |-> Some(<<"s">>), platform |-> <<>>, datetime |-> <<>>],
     [message |-> <<>>, title |-> <<"t">>, level |-> <<"e">>,
      tags |-> <<<<"env", <<>>>>>>,
      project |-> None, platform |-> <<>>, datetime |-> <<>>]}

StoredConfigs ==
    {[kind |-> "ok", api_origin |-> None, channels |-> cs] : cs \in ChannelLists}
    \cup {[kind |-> k, api_origin |-> None, channels |-> <<>>] :
            k \in {"unset", "invalid", "notdict", "nochannels", "badorigin"}}

\* 0: safe_urlopen raises; otherwise the status code of the response
Outcomes == {0, 200, 302, 404}

NoPayload == [text |-> <<>>, parse_mode |-> ""]

NoRender == [done |-> FALSE, raised |-> FALSE, text |-> <<>>]

NoInput ==
    [message_template |-> <<>>, event |-> "none", event_message |-> <<>>,
     title |-> <<>>]

----------------------------------------------------------------------------
(* notify_users *)

Init ==
    /\ options \in {[api_origin |-> Some(Origin1), channels_config_json |-> c,
                     default_message_template |-> TemplateDefault] :
                        c \in StoredConfigs}
    /\ event \in Events
    /\ pc = "start"
    /\ channels_config = <<>>
    /\ global_api_origin = None
    /\ matching_channels = <<>>
    /\ ci = 0
    /\ receivers = <<>>
    /\ ri = 0
    /\ payload = NoPayload
    /\ url = <<>>
    /\ calls = <<>>
    /\ posts = <<>>
    /\ log = <<>>
    /\ rin = NoInput
    /\ rout = NoRender

\* notify_users up to the first return: _get_channels_config_data and the
\* "No Telegram channels configured" return
LoadConfig ==
    /\ pc = "start"
    /\ LET got == _get_channels_config_data(options)
       IN  /\ channels_config' = got.channels
           /\ global_api_origin' = got.api_origin
           /\ log' = log
                \o (IF got.log.level = "none" THEN <<>> ELSE <<got.log>>)
                \o (IF got.channels = <<>>
                    THEN <<[level |-> "info", msg |-> "No Telegram channels configured"]>>
                    ELSE <<>>)
           /\ pc' = IF got.channels = <<>> THEN "done" ELSE "resolve"
    /\ UNCHANGED <<options, event, matching_channels, ci, receivers, ri,
                   payload, url, calls, posts, rin, rout>>

\* the for loop left at the first channel it passes over
NextChannel_return(i) == "done"

\* the for loop's step to the channel after matching_channels[i]
NextChannel(i) == IF i + 1 > Len(matching_channels) THEN "done" ELSE "channel"

\* matching_channels = self._get_matching_channels(...) and the
\* "No matching channels" return
Resolve ==
    /\ pc = "resolve"
    /\ LET got == _get_matching_channels(event, channels_config)
       IN  IF got.raised
           THEN /\ pc' = "raised"
                /\ UNCHANGED <<matching_channels, ci, log>>
           ELSE /\ matching_channels' = got.matching
                /\ ci' = 1
                /\ pc' = IF got.matching = <<>> THEN "done" ELSE "channel"
                /\ log' = log
                     \o <<[level |-> "info", msg |-> "_get_matching_channels",
                           channels |-> [k \in 1..Len(got.matching) |->
                                            channels_config[got.matching[k]]]]>>
                     \o (IF got.matching = <<>>
                         THEN <<[level |-> "info", msg |-> "No matching channels"]>>
                         ELSE <<>>)
    /\ UNCHANGED <<options, event, channels_config, global_api_origin,
                   receivers, ri, payload, url, calls, posts, rin, rout>>

\* one pass of the loop over matching_channels, up to the loop over receivers
PrepareChannel ==
    /\ pc = "channel"
    /\ LET channel_to_send == channels_config[matching_channels[ci]]
           api_token == channel_to_send.api_token
           receivers_str == channel_to_send.receivers
           channel_template ==
               IF channel_to_send.template # <<>> THEN channel_to_send.template
               ELSE options.default_message_template
           api_origin ==
               IF channel_to_send.api_origin # None THEN channel_to_send.api_origin
               ELSE global_api_origin
           parsed == get_receivers_list(receivers_str)
           built == build_message(event, channel_template)
       IN  IF api_token = <<>> \/ receivers_str = <<>>
           THEN /\ log' = log \o <<[level |-> "warning",
                                    msg |-> "Channel missing api_token or receivers"]>>
                /\ ci' = ci + 1
                /\ pc' = NextChannel(ci)
                /\ UNCHANGED <<receivers, ri, payload, url>>
           ELSE IF parsed = <<>>
           THEN /\ log' = log \o <<[level |-> "warning",
                                    msg |-> "No valid receivers parsed"]>>
                /\ ci' = ci + 1
                /\ pc' = NextChannel(ci)
                /\ UNCHANGED <<receivers, ri, payload, url>>
           ELSE IF built.raised
           THEN /\ pc' = "raised"
                /\ receivers' = parsed
                /\ log' = log \o <<[level |-> "debug", msg |-> "Sending to receivers"],
                                   [level |-> "warning", msg |-> "Missing key"]>>
                /\ UNCHANGED <<ci, ri, payload, url>>
           ELSE /\ receivers' = parsed
                /\ ri' = 1
                /\ payload' = built.payload
                /\ url' = build_url(OriginText(api_origin), api_token)
                /\ log' = log \o <<[level |-> "debug", msg |-> "Sending to receivers"],
                                   [level |-> "info", msg |-> "Built URL",
                                    url |-> _mask_url_token(
                                       build_url(OriginText(api_origin), api_token))]>>
                /\ pc' = "send"
                /\ UNCHANGED ci
    /\ UNCHANGED <<options, event, channels_config, global_api_origin,
                   matching_channels, calls, posts, rin, rout>>

\* safe_execute(self.send_message, url, payload, receiver): one POST, whose
\* outcome the transport decides; send_message catches what it raises
SendMessage ==
    /\ pc = "send"
    /\ \E outcome \in Outcomes :
         LET receiver == receivers[ri]
         IN  /\ calls' = Append(calls, [url |-> url, payload |-> payload,
                                        receiver |-> receiver,
                                        chan |-> matching_channels[ci]])
             /\ posts' = Append(posts, [url |-> url,
                                        json |-> payload_copy(payload, receiver),
                                        outcome |-> outcome,
                                        logged |-> send_log(outcome).level])
             /\ log' = log \o <<[level |-> "debug", msg |-> "Sending message"],
                                send_log(outcome)>>
             /\ IF send_message_raises(outcome)
                THEN pc' = "raised" /\ UNCHANGED <<ci, ri>>
                ELSE IF ri + 1 > Len(receivers)
                THEN /\ ci' = ci + 1
                     /\ pc' = NextChannel(ci)
                     /\ UNCHANGED ri
                ELSE /\ ri' = ri + 1
                     /\ UNCHANGED <<ci, pc>>
             /\ payload' = payload_after_send_message(payload, receiver)
    /\ UNCHANGED <<options, event, channels_config, global_api_origin,
                   matching_channels, receivers, url, rin, rout>>

Next == LoadConfig \/ Resolve \/ PrepareChannel \/ SendMessage

Spec == Init /\ [][Next]_vars

----------------------------------------------------------------------------
(* compile_message_text on its own: templates and event messages whose     *)
(* lengths lie around TELEGRAM_MAX_MESSAGE_LENGTH                          *)

\* the event whose message_params and tags the rendering runs use
RenderEvent ==
    [message |-> <<"m">>, title |-> <<"t">>, level |-> <<"e">>,
     tags |-> <<<<"level", <<"e">>>>, <<"7", <<"v">>>>>>,
     project |-> Some(<<"s">>), platform |-> <<>>, datetime |-> <<>>]

MarkerLen == Len(truncate_warning_text)

\* lengths of the fixed text of a template
RenderLitLens ==
    {0, 100}
    \cup {TELEGRAM_MAX_MESSAGE_LENGTH - MarkerLen + d : d \in (0 - 1)..1}
    \cup {TELEGRAM_MAX_MESSAGE_LENGTH + d : d \in 0..MaxOver}

\* lengths of the event message
RenderMessageLens ==
    {0, 1, MarkerLen, MarkerLen + 1}
    \cup {TELEGRAM_MAX_MESSAGE_LENGTH - 100 - MarkerLen + d : d \in (0 - 1)..1}
    \cup {TELEGRAM_MAX_MESSAGE_LENGTH + d : d \in 0..MaxOver}

\* templates with n characters of fixed text: {message} once, twice, not at
\* all; one missing field, once and twice; two missing fields; a missing
\* tag; a tag whose name is a digit
RenderTemplates(n) ==
    {<<Lit("fix", n), Field("message")>>,
     <<Lit("fix", n), Field("message"), Field("message")>>,
     <<Lit("fix", n), Field("title")>>,
     <<Lit("fix", n), Field("foo"), Field("message")>>,
     <<Lit("fix", n), Field("foo"), Field("message"), Field("foo")>>,
     <<Lit("fix", n), Field("foo"), Field("bar"), Field("message")>>,
     <<Lit("fix", n), Tag("nokey"), Tag("level"), Field("message")>>,
     <<Lit("fix", n), Tag("7"), Field("message")>>}

\* a title of n characters of which the first k are Markdown specials
Title(n, k) == [i \in 1..n |-> IF i <= k THEN "_" ELSE "t"]

\* event titles whose lengths lie around EVENT_TITLE_MAX_LENGTH
RenderTitles ==
    {Title(n, k) :
        n \in {1} \cup {EVENT_TITLE_MAX_LENGTH + d : d \in (0 - 1)..MaxOver},
        k \in 0..1}

RenderInputs ==
    {[message_template |-> t, event |-> "RenderEvent",
      event_message |-> [i \in 1..m |-> "x"], title |-> RenderEvent.title] :
        t \in UNION {RenderTemplates(n) : n \in RenderLitLens},
        m \in RenderMessageLens}
    \cup {[message_template |-> <<Lit("fix", 10), Field("title"), Field("message")>>,
           event |-> "RenderEvent", event_message |-> <<"x">>, title |-> t] :
             t \in RenderTitles}

RenderInit ==
    /\ rin \in RenderInputs
    /\ rout = NoRender
    /\ options = [api_origin |-> None,
                  channels_config_json |->
                      [kind |-> "unset", api_origin |-> None, channels |-> <<>>],
                  default_message_template |-> TemplateDefault]
    /\ event = RenderEvent
    /\ pc = "idle"
    /\ channels_config = <<>>
    /\ global_api_origin = None
    /\ matching_channels = <<>>
    /\ ci = 0
    /\ receivers = <<>>
    /\ ri = 0
    /\ payload = NoPayload
    /\ url = <<>>
    /\ calls = <<>>
    /\ posts = <<>>
    /\ log = <<>>

\* the event of a rendering run: RenderEvent with the title of rin
RenderEventOf(input) == [RenderEvent EXCEPT !.title = input.title]

\* one call of compile_message_text with the arguments rin, message_params
\* being what build_message makes of the event
Compile ==
    /\ ~rout.done
    /\ rin # NoInput
    /\ LET got == compile_message_text(rin.message_template,
                                       message_params(RenderEventOf(rin)),
                                       RenderEvent.tags, rin.event_message)
       IN  rout' = [done |-> TRUE, raised |-> got.raised, text |-> got.text]
    /\ UNCHANGED <<rin, notifyVars>>

RenderNext == Compile

SpecRender == RenderInit /\ [][RenderNext]_vars

----------------------------------------------------------------------------
(* _match_filter and _get_matching_channels on their own: one channel with *)
(* a filter list drawn from FilterPool, declared before a filterless one   *)

\* the notify_users variables of a run that calls a helper on its own
IdleNotify ==
    /\ options = [api_origin |-> None,
                  channels_config_json |->
                      [kind |-> "unset", api_origin |-> None, channels |-> <<>>],
                  default_message_template |-> TemplateDefault]
    /\ pc = "idle"
    /\ channels_config = <<>>
    /\ global_api_origin = None
    /\ matching_channels = <<>>
    /\ ci = 0
    /\ receivers = <<>>
    /\ ri = 0
    /\ payload = NoPayload
    /\ url = <<>>
    /\ calls = <<>>
    /\ posts = <<>>
    /\ log = <<>>

\* filters of every type _match_filter knows, of a type it does not know,
\* without a type, without a value, and with a value that is no regex
FilterPool ==
    {Filter(<<"regex", "message">>, <<"A", ".", "*", "_">>),
     Filter(<<"regex", "title">>, <<"(">>),
     Filter(<<"tag", "env">>, <<"p">>),
     Filter(<<"tag", "env">>, <<".", "*">>),
     Filter(<<"tag", "nokey">>, <<".", "*">>),
     Filter(<<"tag", "env">>, <<"(">>),
     Filter(<<"level">>, <<"e">>),
     Filter(<<"project_slug">>, <<"s">>),
     Filter(<<"value", "tag">>, <<"p">>),
     Filter(<<"bogus">>, <<"e">>),
     Filter(<<>>, <<"e">>),
     Filter(<<"level">>, <<>>)}

FilterLists == UNION {[1..n -> FilterPool] : n \in 1..MaxFilters}

\* the channel list handed to _get_matching_channels and to should_notify:
\* the channel with the filters of the input, alone or before a filterless
\* channel
FilterChannels(input) ==
    <<Channel(<<"1">>, <<"x">>, <<>>, None, input.filters)>>
        \o (IF input.with_default THEN <<ChDef1>> ELSE <<>>)

NoFilterOut ==
    [match |-> "none", resolved |-> FALSE, raised |-> FALSE, matching |-> <<>>,
     notify |-> "none"]

FilterInit ==
    /\ rin \in {[filters |-> fs, with_default |-> d] :
                  fs \in FilterLists, d \in BOOLEAN}
    /\ rout = NoFilterOut
    /\ event \in Events
    /\ IdleNotify

\* one call of _match_filter with the first filter of rin, which has a type
\* and a value as every filter the resolution loop hands over has
MatchFilter ==
    /\ rout.match = "none"
    /\ rin.filters[1].type # <<>> /\ rin.filters[1].value # <<>>
    /\ rout' = [rout EXCEPT
                  !.match = _match_filter(event, rin.filters[1].type,
                                          rin.filters[1].value)]
    /\ UNCHANGED <<rin, notifyVars>>

\* one call of _get_matching_channels
GetMatchingChannels ==
    /\ ~rout.resolved
    /\ LET got == _get_matching_channels(event, FilterChannels(rin))
       IN  rout' = [rout EXCEPT
                      !.resolved = TRUE,
                      !.raised = got.raised,
                      !.matching = IF got.raised THEN <<>> ELSE got.matching]
    /\ UNCHANGED <<rin, notifyVars>>

\* one call of TelegramRoutingIntegration.should_notify on the same channels
ShouldNotify ==
    /\ rout.notify = "none"
    /\ rout' = [rout EXCEPT !.notify = should_notify(event, FilterChannels(rin))]
    /\ UNCHANGED <<rin, notifyVars>>

FilterNext == MatchFilter \/ GetMatchingChannels \/ ShouldNotify

SpecFilter == FilterInit /\ [][FilterNext]_vars

----------------------------------------------------------------------------
(* get_receivers_list on its own: every receivers string of up to          *)
(* MaxReceiversLen characters over ReceiverChars                           *)

ReceiverChars == {"a", "b", ";", "/", " "}

ReceiverStrings == UNION {[1..n -> ReceiverChars] : n \in 0..MaxReceiversLen}

NoReceiversOut == [done |-> FALSE, receivers |-> <<>>]

ReceiversInit ==
    /\ rin \in {[receivers_str |-> str] : str \in ReceiverStrings}
    /\ rout = NoReceiversOut
    /\ event = RenderEvent
    /\ IdleNotify

\* one call of get_receivers_list
GetReceiversList ==
    /\ ~rout.done
    /\ rout' = [done |-> TRUE, receivers |-> get_receivers_list(rin.receivers_str)]
    /\ UNCHANGED <<rin, notifyVars>>

ReceiversNext == GetReceiversList

SpecReceivers == ReceiversInit /\ [][ReceiversNext]_vars

----------------------------------------------------------------------------
(* is_configured on its own: the two options it reads, each unset (None),  *)
(* set to the empty string, or set to a string of up to MaxOptionLen       *)
(* characters                                                              *)

\* bool(value) of an option value: None and the empty string are falsy
Truthy(option) == option # None /\ option[1] # <<>>

\* is_configured with either option enough
is_configured_either(api_origin, channels_config_json) ==
    Truthy(api_origin) \/ Truthy(channels_config_json)

\* bool(get_option('api_origin') and get_option('channels_config_json'))
is_configured(api_origin, channels_config_json) ==
    Truthy(api_origin) /\ Truthy(channels_config_json)

OptionValues(chars) ==
    {None} \cup {Some(str) : str \in UNION {[1..n -> chars] : n \in 0..MaxOptionLen}}

NoConfiguredOut == [done |-> FALSE, configured |-> FALSE]

ConfiguredInit ==
    /\ rin \in {[api_origin |-> a, channels_config_json |-> c] :
                  a \in OptionValues({"h", "/"}), c \in OptionValues({"{", "}"})}
    /\ rout = NoConfiguredOut
    /\ event = RenderEvent
    /\ IdleNotify

\* one call of is_configured
IsConfigured ==
    /\ ~rout.done
    /\ rout' = [done |-> TRUE,
                configured |-> is_configured(rin.api_origin,
                                             rin.channels_config_json)]
    /\ UNCHANGED <<rin, notifyVars>>

ConfiguredNext == IsConfigured

SpecConfigured == ConfiguredInit /\ [][ConfiguredNext]_vars

----------------------------------------------------------------------------
(* Properties of channel resolution and dispatch (specification Spec) *)

\* channels_config[i] has a non-empty filter list and all its filters match
FullyMatches(i) ==
    /\ channels_config[i].filters # <<>>
    /\ FiltersMatch(event, channels_config[i].filters) = "T"

Filterless(i) == channels_config[i].filters = <<>>

Configured == 1..Len(channels_config)

\* the channel has an api_token and at least one receiver to send to
Sendable(c) == c.api_token # <<>> /\ get_receivers_list(c.receivers) # <<>>

\* the send_message calls one sendable channel stands for: one per receiver,
\* with the channel's URL and its rendered template
ChannelSends(i) ==
    LET c == channels_config[i]
        recv == get_receivers_list(c.receivers)
        template == IF c.template # <<>> THEN c.template
                    ELSE options.default_message_template
        origin == IF c.api_origin # None THEN c.api_origin ELSE global_api_origin
    IN  [r \in 1..Len(recv) |->
            [chan |-> i, receiver |-> recv[r],
             url |-> build_url(OriginText(origin), c.api_token),
             text |-> build_message(event, template).payload.text]]

RECURSIVE SendsOf(_)
\* the send_message calls a list of channel positions stands for, in order
SendsOf(idx) ==
    IF idx = <<>> THEN <<>>
    ELSE (IF Sendable(channels_config[Head(idx)]) THEN ChannelSends(Head(idx))
          ELSE <<>>) \o SendsOf(Tail(idx))

\* the send_message calls made so far
SendsMade ==
    [k \in 1..Len(calls) |->
        [chan |-> calls[k].chan, receiver |-> calls[k].receiver,
         url |-> calls[k].url, text |-> calls[k].payload.text]]

\* C1: when two or more channels with non-empty filters fully match the
\* event, only the earliest of them in declaration order is dispatched to:
\* no send_message call targets a later matching filtered channel.
C1_FirstMatchWins ==
    \A k \in 1..Len(calls) :
        FullyMatches(calls[k].chan) =>
            ~\E j \in 1..(calls[k].chan - 1) : FullyMatches(j)

\* C2: when some channel with non-empty filters fully matches the event,
\* no filterless channel receives a message: every send_message call
\* targets a matching filtered channel.
C2_NoDefaultWhenFilteredMatches ==
    (\E j \in Configured : FullyMatches(j)) =>
        \A k \in 1..Len(calls) : FullyMatches(calls[k].chan)

Resolved == pc \in {"channel", "send", "done"} /\ channels_config # <<>>

Finished == pc \in {"done", "raised"}

\* C4: when every configured channel has no filters (each with an api_token
\* and receivers), notify_users sends the event to every channel: when the
\* call is over the send_message calls made are, in channel declaration
\* order, one per receiver of each channel, each with that channel's URL
\* and its own rendered template.
C4_AllFilterlessAllSent ==
    (/\ Finished
     /\ channels_config # <<>>
     /\ \A i \in Configured : Filterless(i) /\ Sendable(channels_config[i])) =>
        SendsMade = SendsOf([i \in Configured |-> i])

\* C5: when every channel has a non-empty filter list and no channel's
\* filters all match the event, resolution yields no channel and no
\* send_message call is made.
C5_NoMatchNoSend ==
    (\A i \in Configured : ~Filterless(i) /\ ~FullyMatches(i)) =>
        matching_channels = <<>> /\ calls = <<>> /\ posts = <<>>

\* C5 witness: resolution ran over filtered channels, none of which matched.
C5_Witness ==
    /\ pc = "done"
    /\ channels_config # <<>>
    /\ \A i \in Configured : ~Filterless(i) /\ ~FullyMatches(i)
    /\ \E k \in 1..Len(log) : log[k].msg = "No matching channels"

\* C8: notify_users never raises to its caller, whatever the configuration,
\* the event and the transport outcomes.
C8_NotifyNeverRaises == pc # "raised"

\* a POST whose transport call raised or whose response is an error status
Failed(outcome) == outcome = 0 \/ outcome >= 400

\* C9: when the transport call for a receiver has raised or returned an
\* error status, every later receiver of that channel and every receiver of
\* every later resolved channel still gets its POST, and notify_users
\* completes: once the call is over it has returned normally and the POSTs
\* made are those of all receivers of all resolved channels.
C9_FailureIsolation ==
    (Finished /\ \E k \in 1..Len(posts) : Failed(posts[k].outcome)) =>
        /\ pc = "done"
        /\ [k \in 1..Len(posts) |-> posts[k].json.chat_id]
             = [k \in 1..Len(SendsOf(matching_channels)) |->
                   SendsOf(matching_channels)[k].receiver[1]]

\* C10 as stated: a response with a status code >= 300 is a delivery failure
\* logged as an error, a status below 300 is a success.
C10_Status300IsFailure ==
    \A k \in 1..Len(posts) :
        posts[k].outcome # 0 =>
            (posts[k].outcome >= 300 <=> posts[k].logged = "error")

\* C10 as amended: each send_message call issues exactly one POST, to its
\* receiver; a status code >= 400, or the transport raising, is a delivery
\* failure logged as an error, neither retried nor surfaced to the caller;
\* a status below 400, 3xx included, is treated as success.
C10_Status400IsFailure ==
    /\ [](/\ Len(posts) = Len(calls)
          /\ \A k \in 1..Len(posts) :
                /\ posts[k].url = calls[k].url
                /\ posts[k].json.chat_id = calls[k].receiver[1]
                /\ posts[k].logged = "error"
                     <=> (posts[k].outcome = 0 \/ posts[k].outcome >= 400)
                /\ posts[k].logged = "debug"
                     <=> (posts[k].outcome > 0 /\ posts[k].outcome < 400))
    /\ [][pc = "send" =>
            /\ Len(posts') = Len(posts) + 1 /\ Len(calls') = Len(calls) + 1
            /\ SubSeq(posts', 1, Len(posts)) = posts
            /\ pc' # "raised"]_vars

\* C10 witness: a 3xx response taken as success and a 4xx or 5xx response
\* logged as an error in one call, which returned.
C10_Witness ==
    /\ pc = "done"
    /\ \E k \in 1..Len(posts) :
          posts[k].outcome = 302 /\ posts[k].logged = "debug"
    /\ \E k \in 1..Len(posts) :
          posts[k].outcome >= 400 /\ posts[k].logged = "error"

----------------------------------------------------------------------------
(* Properties of the stored configuration (specification Spec) *)

\* has some log record of that level been written
Logged(level) == \E k \in 1..Len(log) : log[k].level = level

\* C13 as stated: when the stored channels_config_json is empty, is not
\* valid JSON, is not a JSON object or has no 'channels' list, the channel
\* list is empty, an error is logged, and notify_users issues no
\* send_message call and returns normally.
C13_BadConfigLogsError ==
    (/\ pc # "start"
     /\ options.channels_config_json.kind
          \in {"unset", "invalid", "notdict", "nochannels"}) =>
        /\ channels_config = <<>>
        /\ Logged("error")
        /\ calls = <<>> /\ posts = <<>>
        /\ pc = "done"

\* C13 as amended: when the stored channels_config_json is not valid JSON,
\* is not a JSON object, has no 'channels' list or has an 'api_origin' that
\* is not a string, the channel list is empty, an error is logged, no
\* send_message call is made and notify_users returns normally; when it is
\* empty the same holds except that the record logged is an info record,
\* not an error.
C13_BadConfigIsNoOp ==
    (pc # "start" /\ options.channels_config_json.kind # "ok") =>
        /\ channels_config = <<>>
        /\ calls = <<>> /\ posts = <<>>
        /\ pc = "done"
        /\ IF options.channels_config_json.kind = "unset"
           THEN /\ ~Logged("error")
                /\ \E k \in 1..Len(log) :
                      /\ log[k].level = "info"
                      /\ log[k].msg = "channels_config_json is empty"
           ELSE Logged("error")

\* C13 witness: notify_users has returned on a stored value that is a JSON
\* object without a 'channels' list, with an error logged.
C13_Witness ==
    /\ pc = "done"
    /\ options.channels_config_json.kind = "nochannels"
    /\ Logged("error")
    /\ calls = <<>>

\* the channel has a non-empty api_token and non-empty receivers
HasTokenAndReceivers(c) == c.api_token # <<>> /\ c.receivers # <<>>

\* C14 as stated: a channel set that holds a channel missing a non-empty
\* api_token or receivers is treated as 'no channels configured': no
\* message is sent to any channel of the set.
C14_PartialSetNotUsed ==
    (\E i \in Configured : ~HasTokenAndReceivers(channels_config[i])) =>
        calls = <<>>

\* C14 as amended: only the channel missing a non-empty api_token or
\* receivers is passed over.  No send_message call ever targets such a
\* channel; when the loop reaches it a warning is logged, no call is made
\* and the loop goes on with the next resolved channel; and the calls made
\* are, in order, the first of the calls the other resolved channels stand
\* for.
C14_OnlyThatChannelSkipped ==
    /\ [](/\ \A k \in 1..Len(calls) :
                HasTokenAndReceivers(channels_config[calls[k].chan])
          /\ Len(SendsMade) <= Len(SendsOf(matching_channels))
          /\ SendsMade = SubSeq(SendsOf(matching_channels), 1, Len(SendsMade)))
    /\ [][(/\ pc = "channel"
           /\ ~HasTokenAndReceivers(channels_config[matching_channels[ci]])) =>
             /\ calls' = calls
             /\ ci' = ci + 1
             /\ pc' = IF ci < Len(matching_channels) THEN "channel" ELSE "done"
             /\ log' = Append(log,
                   [level |-> "warning",
                    msg |-> "Channel missing api_token or receivers"])]_vars

\* C14 witness: notify_users has returned; the first resolved channel lacks
\* its api_token or its receivers and the channel after it has been sent to.
C14_Witness ==
    /\ pc = "done"
    /\ Len(matching_channels) = 2
    /\ ~HasTokenAndReceivers(channels_config[matching_channels[1]])
    /\ \E k \in 1..Len(calls) : calls[k].chan = matching_channels[2]

\* the text build_message gives for channels_config[i]
ChannelText(i) ==
    build_message(event,
                  IF channels_config[i].template # <<>>
                  THEN channels_config[i].template
                  ELSE options.default_message_template).payload.text

\* C16: every receiver's POST body carries the text its channel was
\* rendered to and parse_mode 'Markdown', chat_id is that receiver's chat
\* id, and message_thread_id is present if and only if that receiver has a
\* thread id (and is that id); send_message leaves the shared payload
\* unchanged: every call of a channel is handed the same payload of text and
\* parse_mode only, so no thread id of an earlier receiver is in the POST
\* of a later one.
C16_PostBodyPerReceiver ==
    /\ Len(posts) = Len(calls)
    /\ DOMAIN payload = {"text", "parse_mode"}
    /\ \A k \in 1..Len(posts) :
          LET json == posts[k].json
              receiver == calls[k].receiver
          IN  /\ calls[k].payload =
                    [text |-> ChannelText(calls[k].chan), parse_mode |-> "Markdown"]
              /\ json.text = ChannelText(calls[k].chan)
              /\ json.parse_mode = "Markdown"
              /\ json.chat_id = receiver[1]
              /\ DOMAIN json \subseteq
                    {"text", "parse_mode", "chat_id", "message_thread_id"}
              /\ "message_thread_id" \in DOMAIN json <=> Len(receiver) > 1
              /\ Len(receiver) > 1 => json.message_thread_id = receiver[2]

\* C16 witness: in one channel a receiver with a thread id was sent to
\* before a receiver without one.
C16_Witness ==
    \E k \in 1..(Len(posts) - 1) :
        /\ calls[k].chan = calls[k + 1].chan
        /\ Len(calls[k].receiver) = 2
        /\ Len(calls[k + 1].receiver) = 1
        /\ "message_thread_id" \in DOMAIN posts[k].json

----------------------------------------------------------------------------
(* Properties of filters (specifications Spec and SpecFilter) *)

\* C11: a regex-typed filter whose value is not a valid regular expression
\* evaluates to non-match: no error leaves channel resolution, the channels
\* declared after it are still evaluated (the list returned holds exactly
\* the filterless channels and the channels whose filters all match), and
\* notify_users proceeds.
C11_BadRegexIsNonMatch ==
    [][pc = "resolve" =>
          /\ pc' \in {"channel", "done"}
          /\ matching_channels' =
                SelectSeq([i \in Configured |-> i],
                          LAMBDA i : Filterless(i) \/ FullyMatches(i))]_vars

\* the types _match_filter has a branch for
KnownType(type) ==
    \/ type \in {<<"regex", "message">>, <<"regex", "title">>, <<"level">>,
                 <<"project_slug">>, <<"value", "tag">>}
    \/ Len(type) >= 2 /\ type[1] = "tag"

\* a filter with a missing or empty type, a missing or empty value, or a
\* type _match_filter does not know
Malformed(f) == f.type = <<>> \/ f.value = <<>> \/ ~KnownType(f.type)

\* C12: a channel whose filter list holds a filter with a missing or empty
\* type, a missing or empty value, or an unknown type is never selected,
\* neither as a matching filtered channel nor as a default channel: it is
\* not in the list _get_matching_channels returns.
C12_MalformedNeverSelected ==
    (rout.resolved /\ \E i \in 1..Len(rin.filters) : Malformed(rin.filters[i])) =>
        \A k \in 1..Len(rout.matching) : rout.matching[k] # 1

\* C12 witness: resolution returned; the channel's first filter matches the
\* event, its second is of an unknown type, and only the filterless channel
\* declared after it is selected.
C12_Witness ==
    /\ rout.resolved /\ ~rout.raised
    /\ Len(rin.filters) = 2
    /\ ~Malformed(rin.filters[1])
    /\ _match_filter(event, rin.filters[1].type, rin.filters[1].value) = "T"
    /\ rin.filters[2].type = <<"bogus">>
    /\ rout.matching = <<2>>

\* C18: a tag__<name> filter matches an event if and only if the event has
\* a tag keyed <name> and the case-insensitive regex search of the filter
\* value against that tag's value succeeds, for every tag value, the empty
\* string included; an absent key gives false.
C18_TagFilterIsRegexSearch ==
    (/\ rout.match # "none"
     /\ rin.filters[1].type[1] = "tag"
     /\ ~ReError(rin.filters[1].value)) =>
        LET tag_value == DictGet(event.tags, rin.filters[1].type[2])
        IN  rout.match = IF tag_value = None THEN "F"
                         ELSE ReSearch(rin.filters[1].value, tag_value[1])

----------------------------------------------------------------------------
(* Properties of get_receivers_list (specification SpecReceivers) *)

\* the positions that bound the segments of s: before its first character,
\* at each ';', after its last character
RefCuts(s) == {0, Len(s) + 1} \cup {i \in 1..Len(s) : s[i] = ";"}

\* the k-th smallest element of a set of numbers
RefNth(S, k) == CHOOSE x \in S : Cardinality({y \in S : y < x}) = k - 1

RECURSIVE RefTrimLeft(_)
RefTrimLeft(s) ==
    IF s # <<>> /\ Head(s) = " " THEN RefTrimLeft(Tail(s)) ELSE s

RECURSIVE RefTrimRight(_)
RefTrimRight(s) ==
    IF s # <<>> /\ s[Len(s)] = " "
    THEN RefTrimRight(SubSeq(s, 1, Len(s) - 1)) ELSE s

\* the k-th segment of s between its ';', trimmed
RefSegment(s, k) ==
    RefTrimRight(RefTrimLeft(
        SubSeq(s, RefNth(RefCuts(s), k) + 1, RefNth(RefCuts(s), k + 1) - 1)))

\* a kept segment as [chat_id] or, cut at its first '/', [chat_id, thread_id]
RefReceiver(seg) ==
    IF \A i \in 1..Len(seg) : seg[i] # "/" THEN <<seg>>
    ELSE LET i == CHOOSE i \in 1..Len(seg) :
                     seg[i] = "/" /\ \A j \in 1..(i - 1) : seg[j] # "/"
         IN  <<SubSeq(seg, 1, i - 1), SubSeq(seg, i + 1, Len(seg))>>

\* the reference parse of a receivers string
RefParse(s) ==
    LET segments == [k \in 1..(Cardinality(RefCuts(s)) - 1) |-> RefSegment(s, k)]
        kept == SelectSeq(segments, LAMBDA seg : seg # <<>>)
    IN  [k \in 1..Len(kept) |-> RefReceiver(kept[k])]

\* C15: get_receivers_list(s) equals the reference parse of s: split on
\* ';', trim each segment, drop the segments that are empty after trimming,
\* split each kept segment on its first '/' only, keeping the input order
\* and duplicates; the empty string gives the empty list.
C15_ReceiversParse ==
    rout.done => rout.receivers = RefParse(rin.receivers_str)

\* C15 witness: a string parsed to two receivers whose first has a thread
\* id, from an input that also holds a segment that is dropped or trimmed.
C15_Witness ==
    /\ rout.done
    /\ Len(rout.receivers) = 2
    /\ Len(rout.receivers[1]) = 2
    /\ Len(rout.receivers[2]) = 1
    /\ Len(rin.receivers_str) =
          Len(rout.receivers[1][1]) + Len(rout.receivers[1][2])
            + Len(rout.receivers[2][1]) + 3

----------------------------------------------------------------------------
(* Properties of compile_message_text (specification SpecRender) *)

\* C6: the text compile_message_text returns is at most
\* TELEGRAM_MAX_MESSAGE_LENGTH characters long.
C6_LengthBound ==
    (rout.done /\ ~rout.raised) =>
        TextLen(rout.text) <= TELEGRAM_MAX_MESSAGE_LENGTH

\* C7: no KeyError leaves compile_message_text, however many distinct
\* placeholder names of the template the parameters lack.
C7_NeverRaises == rout.done => ~rout.raised

\* what str.format puts in place of each segment of the template of rin when
\* message is the complete event message
FullRendering ==
    FormatRetry(rin.message_template,
                ("message" :> rin.event_message)
                    @@ message_params(RenderEventOf(rin)),
                RenderEvent.tags).text

\* C17: a placeholder {tag[<name>]} whose name is not a key of the event's
\* tags renders as the literal '[NA]' and does not raise; a placeholder
\* whose name is a key renders as that tag's value.
C17_TagPlaceholder ==
    (/\ rout.done
     /\ \E i \in 1..Len(rin.message_template) : rin.message_template[i].k = "tag"
     /\ \A i \in 1..Len(rin.message_template) :
           rin.message_template[i].k = "field" =>
              rin.message_template[i].name
                 \in DOMAIN message_params(RenderEvent) \cup {"message"}) =>
        /\ ~rout.raised
        /\ \A i \in 1..Len(rin.message_template) :
              rin.message_template[i].k = "tag" =>
                 LET tag_value == DictGet(RenderEvent.tags,
                                          rin.message_template[i].name)
                 IN  rout.text[i].s = IF tag_value = None THEN NA
                                      ELSE tag_value[1]

\* C19: the message field is shortened only when the rendering with the
\* complete event message would exceed TELEGRAM_MAX_MESSAGE_LENGTH: when the
\* full rendering is at most that long the text returned is the full
\* rendering; when the message is shortened every other segment is as in
\* the full rendering and the message ends with '... (truncated)'.
C19_ShortenOnlyWhenNeeded ==
    (rout.done /\ ~rout.raised) =>
        IF TextLen(FullRendering) <= TELEGRAM_MAX_MESSAGE_LENGTH
        THEN rout.text = FullRendering
        ELSE \A i \in 1..Len(rin.message_template) :
                IF rin.message_template[i] = Field("message")
                THEN /\ rout.text[i].n >= MarkerLen
                     /\ SubSeq(rout.text[i].s, rout.text[i].n - MarkerLen + 1,
                               rout.text[i].n) = truncate_warning_text
                ELSE rout.text[i] = FullRendering[i]

\* C20: the value substituted for the {title} placeholder is at most
\* EVENT_TITLE_MAX_LENGTH characters long.
C20_TitleBound ==
    (rout.done /\ ~rout.raised) =>
        \A i \in 1..Len(rin.message_template) :
            rin.message_template[i] = Field("title") =>
                rout.text[i].n <= EVENT_TITLE_MAX_LENGTH

----------------------------------------------------------------------------
(* Properties of is_configured (specification SpecConfigured) *)

\* the option is set to a non-empty value
SetNonEmpty(option) == Len(option) = 1 /\ Len(option[1]) > 0

\* C21: is_configured(project) is true if and only if both the api_origin
\* option and the channels_config_json option are set to non-empty values;
\* with either one unset it is false.
C21_IsConfigured ==
    rout.done =>
        /\ rout.configured <=>
              (SetNonEmpty(rin.api_origin) /\ SetNonEmpty(rin.channels_config_json))
        /\ (rin.api_origin = None \/ rin.channels_config_json = None) =>
              ~rout.configured

\* C21 witness: is_configured has returned True on two non-empty options.
C21_Witness ==
    /\ rout.done /\ rout.configured
    /\ SetNonEmpty(rin.api_origin)
    /\ SetNonEmpty(rin.channels_config_json)

----------------------------------------------------------------------------
(* Properties of filter lists and of the two implementations              *)
(* (specification SpecFilter)                                              *)

\* what the i-th filter of the input gives on its own: "F" without a type
\* or a value, else the result of _match_filter
FilterValue(i) ==
    IF rin.filters[i].type = <<>> \/ rin.filters[i].value = <<>> THEN "F"
    ELSE _match_filter(event, rin.filters[i].type, rin.filters[i].value)

\* the i-th filter is the first that does not match, with result r
FirstNot(i, r) ==
    FilterValue(i) = r /\ \A j \in 1..(i - 1) : FilterValue(j) = "T"

\* C22: the filters of one channel combine with AND and are evaluated in
\* list order with short-circuit: the channel is returned if and only if
\* every filter matches, and once one filter has evaluated false no later
\* filter is evaluated, so that a later filter that would raise is never
\* reached; resolution raises only when the first filter that does not
\* match is one that raises.
C22_AndShortCircuit ==
    rout.resolved =>
        /\ (\E k \in 1..Len(rout.matching) : rout.matching[k] = 1)
              <=> \A i \in 1..Len(rin.filters) : FilterValue(i) = "T"
        /\ (\E i \in 1..Len(rin.filters) : FirstNot(i, "F")) => ~rout.raised
        /\ rout.raised <=> \E i \in 1..Len(rin.filters) : FirstNot(i, "E")

\* C22 witness: resolution has returned on a channel whose first filter
\* _match_filter evaluates false and whose second filter would raise.
C22_Witness ==
    /\ rout.resolved /\ ~rout.raised
    /\ Len(rin.filters) = 2
    /\ rin.filters[1].type # <<>> /\ rin.filters[1].value # <<>>
    /\ FilterValue(1) = "F"
    /\ FilterValue(2) = "E"

\* C25: should_notify of the integration returns True exactly when the
\* plugin's _get_matching_channels returns a non-empty list for the same
\* channels and event.
C25_ImplementationsAgree ==
    (rout.resolved /\ rout.notify # "none") =>
        (rout.notify = "T" <=> (~rout.raised /\ rout.matching # <<>>))

----------------------------------------------------------------------------
(* Properties of the resolved list and of the log (specification Spec) *)

\* C23: the list _get_matching_channels returns is a subsequence of the
\* configured channel list: every configured channel is in it at most once,
\* the declaration order is kept, and every channel in it has no filters or
\* has all its filters matching the event.
C23_SubsequenceOfConfigured ==
    /\ \A k \in 1..Len(matching_channels) :
          /\ matching_channels[k] \in Configured
          /\ Filterless(matching_channels[k]) \/ FullyMatches(matching_channels[k])
    /\ \A k \in 1..(Len(matching_channels) - 1) :
          matching_channels[k] < matching_channels[k + 1]

\* C23 witness: resolution returned two channels, a filtered one whose
\* filters all match and, after it, a filterless one.
C23_Witness ==
    /\ pc = "done"
    /\ Len(channels_config) = 2
    /\ matching_channels = <<1, 2>>
    /\ FullyMatches(1)
    /\ Filterless(2)

\* the api_token values of the configurations
ApiTokens == {c.api_token : c \in ChannelPool} \ {<<>>}

\* is sub a run of consecutive characters of text
Contains(text, sub) ==
    \E i \in 0..(Len(text) - Len(sub)) : SubSeq(text, i + 1, i + Len(sub)) = sub

\* C24: what notify_users logs does not depend on a channel's api_token:
\* _mask_url_token gives the same string for the URL of the channel being
\* sent to whatever its token is, and no log record holds a token, neither
\* the URL logged once it is built nor the channels logged by
\* _get_matching_channels.
C24_LogIndependentOfToken ==
    /\ pc = "send" =>
          LET c == channels_config[matching_channels[ci]]
              origin == OriginText(IF c.api_origin # None THEN c.api_origin
                                   ELSE global_api_origin)
          IN  \A t \in ApiTokens :
                 _mask_url_token(url) = _mask_url_token(build_url(origin, t))
    /\ \A k \in 1..Len(log) :
          /\ "url" \in DOMAIN log[k] =>
                \A t \in ApiTokens : ~Contains(log[k].url, t)
          /\ "channels" \in DOMAIN log[k] =>
                \A j \in 1..Len(log[k].channels) :
                    log[k].channels[j].api_token = <<>>

----------------------------------------------------------------------------
(* A further property of get_receivers_list (specification SpecReceivers) *)

\* C26: every receiver get_receivers_list produces has a non-empty chat_id,
\* for every receivers string, those with a segment that begins with '/'
\* included.
C26_ChatIdNonEmpty ==
    rout.done =>
        \A k \in 1..Len(rout.receivers) : rout.receivers[k][1] # <<>>

====
